---- MODULE Spec2Model ----
(***************************************************************************)
(* Pixel Canvas Lite, frontend/app.js: the canvas state (canvasState), the *)
(* cooldown gate (canPaint, cooldownEndTime, the updateCooldownDisplay     *)
(* timer chain), the click handler and its paint request, the startup      *)
(* sequence of init(), and the periodic refreshes of startUpdateLoop.      *)
(* The remote API (frontend/api.js) is a black box: every awaited call     *)
(* resolves with any response of its set, or rejects.                      *)
(* The browser is single-threaded: each action below is one run-to-        *)
(* completion step of the event loop (a handler up to its next await, a    *)
(* continuation after an await, or a timer callback).                      *)
(***************************************************************************)
EXTENDS Integers, Sequences, FiniteSets, Bags, TLC

(* ------------------------------ constants ------------------------------ *)

GRID_SIZE == 32
PIXEL_SIZE == 20
CANVAS_SIZE == GRID_SIZE * PIXEL_SIZE

\* `let cooldownEndTime = null`; also an interval that is not yet set.
Null == -1

\* `response.cooldown_remaining || 30`
DEFAULT_COOLDOWN == 30
\* setTimeout(updateCooldownDisplay, 1000) and the division by 1000
COOLDOWN_TICK_MS == 1000
\* seconds * 1000
MS_PER_SECOND == 1000
\* setInterval(updateRecentActivity, 10000)
ACTIVITY_INTERVAL_MS == 10000
\* setInterval(updateStats, 30000)
STATS_INTERVAL_MS == 30000

\* frontend/magnifier.js: the magnifier that samples the primary canvas
MAGNIFIER_RADIUS == 75
MAGNIFIER_ZOOM == 4
\* unnamed/part_000: the magnifier that draws the cells of canvasState
MAGNIFIER_RADIUS_RASTER == 85
MAGNIFIER_ZOOM_RASTER == 2

(* -------------------------------- bounds ------------------------------- *)

\* Date.now() advances in steps of TimeStep milliseconds, up to MaxTime.
TimeStep == 10000
MaxTime == 32000
\* Clicks that issue a paint request, in Spec and in SpecRefresh.
MaxPaints == 2
MaxRefreshPaints == 1
\* The largest cooldown (seconds) the remote store answers with.
MaxCooldown == 2

(* ------------------------------- colours ------------------------------- *)

\* A colour string is the sequence of its characters.
\* The value of JavaScript `undefined`, where a colour is read from a
\* response that has none.
Undefined == <<"undefined">>

UpperChar(ch) ==
    CASE ch = "a" -> "A" [] ch = "b" -> "B" [] ch = "c" -> "C"
      [] ch = "d" -> "D" [] ch = "e" -> "E" [] ch = "f" -> "F"
      [] OTHER -> ch

\* String.prototype.toUpperCase()
ToUpperCase(s) == [i \in DOMAIN s |-> UpperChar(s[i])]

LowerChar(ch) ==
    CASE ch = "A" -> "a" [] ch = "B" -> "b" [] ch = "C" -> "c"
      [] ch = "D" -> "d" [] ch = "E" -> "e" [] ch = "F" -> "f"
      [] OTHER -> ch

\* The colour a canvas context holds after `ctx.fillStyle = s` with a hex
\* colour string: hex digits are read without regard to case, and the
\* context keeps the colour in lower case.
CssColor(s) == [i \in DOMAIN s |-> LowerChar(s[i])]

\* '#FFFFFF', the fill of drawEmptyGrid
BACKGROUND == <<"#", "F", "F", "F", "F", "F", "F">>

\* colorPicker.value: an <input type="color"> holds lower-case hex.
PickerValues == { <<"#", "0", "0", "f", "f", "0", "0">> }

\* Colours the remote store may send: the boundary does not guarantee case.
WireColors == { <<"#", "0", "0", "F", "F", "0", "0">>,
                <<"#", "f", "f", "6", "b", "6", "b">> }

(* ---------------------------- remote store ----------------------------- *)

\* getCanvasState(): data.pixels, in the order the store lists them.
Snapshots ==
    { << >>,
      << [x |-> 3, y |-> 4, color |-> <<"#", "f", "f", "6", "b", "6", "b">>] >>,
      << [x |-> 3, y |-> 4, color |-> <<"#", "0", "0", "F", "F", "0", "0">>],
         [x |-> 3, y |-> 4, color |-> <<"#", "F", "F", "6", "B", "6", "B">>] >> }

\* A fulfilled paintPixel(): `present` is false for a null body, `hasPixel`
\* is false when the body has no pixel object, `color` is pixel.color
\* (Undefined when the pixel object has none), `cooldown_remaining` is the
\* field of that name (0 also stands for a missing field: both are falsy).
PaintResponses ==
    [ present : BOOLEAN, hasPixel : BOOLEAN,
      color : WireColors \cup {Undefined},
      cooldown_remaining : 0..MaxCooldown ]

\* A rejected paintPixel(), by the message of the Error that apiRequest
\* throws: the `detail` of a non-OK response (a cooldown message for 429,
\* another message for a validation error), the fallback 'Error en la
\* petición' when the body has no detail, or fetch's own message when the
\* transport fails.
PaintErrors == {"detail-cooldown", "detail-invalid", "no-detail", "transport"}

\* A fulfilled getUserStats().
UserStats == [ can_paint : BOOLEAN, cooldown_remaining : 0..MaxCooldown ]

\* event.clientX - rect.left, event.clientY - rect.top of a click.
PointerOffsets == { <<65, 85>>, <<-5, 10>>, <<640, 100>> }

(* -------------------------------- state -------------------------------- *)

VARIABLES
    pc,              \* init(): "load" awaiting loadCanvasState, "stats"
                     \* awaiting updateStats, "run" once listeners are set
    now,             \* Date.now()
    canPaint,        \* let canPaint
    cooldownEndTime, \* let cooldownEndTime (Null or a timestamp)
    canvasState,     \* let canvasState: <<x, y>> -> colour, keys present only
    paintReqs,       \* bag of paintPixel calls awaited by handleCanvasClick
    paintsIssued,    \* number of paintPixel calls made so far
    statsCalls,      \* bag of updateStats invocations at an await
    timeouts,        \* bag of pending setTimeout(updateCooldownDisplay):
                     \* milliseconds left before each may run
    activityDelay,   \* setInterval(updateRecentActivity): ms left, or Null
    statsDelay,      \* setInterval(updateStats): ms left, or Null
    activityReqs,    \* number of getRecentPixels calls awaited
    recentActivity,  \* what recentActivityElement shows
    notice,          \* alert() raised by the last step, "none" if none
    canvasKeys,      \* Object.keys(canvasState): the keys in insertion order
    surface,         \* the primary canvas: origin of a filled cell-sized
                     \* square -> its colour, background where none
    fillStyle,       \* ctx.fillStyle of the primary canvas
    pixelInfo,       \* what pixelInfoElement shows
    variant,         \* which magnifier script the page loads
    magnifierActive, \* let magnifierActive
    magnifierX,      \* let magnifierX
    magnifierY,      \* let magnifierY
    lens             \* the magnifier canvas and its drawing context

vars == << pc, now, canPaint, cooldownEndTime, canvasState, paintReqs,
           paintsIssued, statsCalls, timeouts, activityDelay, statsDelay,
           activityReqs, recentActivity, notice, canvasKeys, surface,
           fillStyle, pixelInfo, variant, magnifierActive, magnifierX,
           magnifierY, lens >>

gate == << canPaint, cooldownEndTime, timeouts >>
loops == << activityDelay, statsDelay, activityReqs, recentActivity >>
\* The primary canvas, with the order redrawCanvas walks canvasState in.
primary == << canvasKeys, surface, fillStyle >>
\* The magnifier script's state.
magnifier == << variant, magnifierActive, magnifierX, magnifierY, lens >>
\* What handleCanvasHover and the magnifier own: no other handler of the
\* page touches it.
inspection == << pixelInfo, magnifier >>

EmptyState == [k \in {} |-> Undefined]

\* The primary canvas with nothing over its background.
EmptySurface == [o \in {} |-> CssColor(BACKGROUND)]

\* The magnifier canvas with nothing drawn: `fill` is the white disc,
\* `copied` whether the magnified content was drawn, `cells` the magnified
\* painted cells (top-left corner on the magnifier canvas -> colour),
\* `grid`, `crosshair` and `border` the three overlays, `clipped` whether
\* the circular clip is in force and `saved` the depth of the context's
\* save() stack.
ClearLens == [ fill |-> FALSE, copied |-> FALSE, cells |-> EmptySurface,
               grid |-> FALSE, crosshair |-> FALSE, border |-> FALSE,
               clipped |-> FALSE, saved |-> 0 ]

\* What pixelInfoElement shows before the first hover.
NoInfo == << >>

Init ==
    /\ pc = "load"
    /\ now = 0
    /\ canPaint = TRUE
    /\ cooldownEndTime = Null
    /\ canvasState = EmptyState
    /\ paintReqs = EmptyBag
    /\ paintsIssued = 0
    /\ statsCalls = EmptyBag
    /\ timeouts = EmptyBag
    /\ activityDelay = Null
    /\ statsDelay = Null
    /\ activityReqs = 0
    /\ recentActivity = "initial"
    /\ notice = "none"
    /\ canvasKeys = << >>
    /\ surface = EmptySurface
    /\ fillStyle = CssColor(BACKGROUND)
    /\ pixelInfo = NoInfo
    /\ variant = "sampling"
    /\ magnifierActive = FALSE
    /\ magnifierX = 0
    /\ magnifierY = 0
    /\ lens = ClearLens

(* ------------------------------- helpers ------------------------------- *)

Max(a, b) == IF a >= b THEN a ELSE b

\* Math.ceil(a / b) for b > 0
CeilDiv(a, b) == -((-a) \div b)

\* The key `${x},${y}`
Key(x, y) == <<x, y>>

\* canvasState[key] = color
SetCell(state, key, color) ==
    [k \in DOMAIN state \cup {key} |-> IF k = key THEN color ELSE state[k]]

\* One element added to / removed from a bag.
BagAdd(b, e) == b (+) SetToBag({e})
BagRemove(b, e) == b (-) SetToBag({e})

(* --------------------------- primary canvas ---------------------------- *)

\* The primary canvas context as a record [surface, fillStyle]. Only the
\* fill of each cell-sized square is kept: the #EEEEEE grid lines are the
\* same after every drawEmptyGrid and drawPixel.
Ctx == [ surface |-> surface, fillStyle |-> fillStyle ]

\* `ctx.fillStyle = color`: a value that is no colour is ignored.
SetFillStyle(c, color) ==
    IF color = Undefined THEN c ELSE [c EXCEPT !.fillStyle = CssColor(color)]

\* The square lies on the canvas (anything else is clipped away).
OnCanvas(realX, realY) ==
    /\ realX >= 0 /\ realX < CANVAS_SIZE
    /\ realY >= 0 /\ realY < CANVAS_SIZE

\* ctx.fillRect(realX, realY, PIXEL_SIZE, PIXEL_SIZE) with the current
\* fillStyle.
FillRect(c, realX, realY) ==
    IF ~OnCanvas(realX, realY)
    THEN c
    ELSE LET o == <<realX, realY>>
             rest == DOMAIN c.surface \ {o}
             over == IF c.fillStyle = CssColor(BACKGROUND)
                     THEN rest ELSE rest \cup {o}
         IN  [c EXCEPT !.surface =
                 [q \in over |-> IF q = o THEN c.fillStyle ELSE c.surface[q]]]

\* drawEmptyGrid restoring the fill style it found.
DrawEmptyGridKeepsStyle(c) == [c EXCEPT !.surface = EmptySurface]

\* drawEmptyGrid(): the whole canvas filled with '#FFFFFF'.
DrawEmptyGrid(c) ==
    [SetFillStyle(c, BACKGROUND) EXCEPT !.surface = EmptySurface]

\* The origin of a cell counted from 1.
RealOriginOneBased(x) == (x + 1) * PIXEL_SIZE

\* realX = x * PIXEL_SIZE (and the same for y)
RealOrigin(x) == x * PIXEL_SIZE

\* drawPixel(x, y, color)
DrawPixel(c, x, y, color) ==
    FillRect(SetFillStyle(c, color), RealOrigin(x), RealOrigin(y))

\* The loop of redrawCanvas over Object.entries(state), in key order.
RECURSIVE DrawEntries(_, _, _)
DrawEntries(c, state, keys) ==
    IF keys = << >>
    THEN c
    ELSE DrawEntries(DrawPixel(c, Head(keys)[1], Head(keys)[2],
                               state[Head(keys)]),
                     state, Tail(keys))

\* redrawCanvas drawing over what the canvas shows.
RedrawCanvasNoClear(c, state, keys) == DrawEntries(c, state, keys)

\* redrawCanvas() with canvasState = state, whose keys are `keys`.
RedrawCanvas(c, state, keys) == DrawEntries(DrawEmptyGrid(c), state, keys)

SetCtx(c) ==
    /\ surface' = c.surface
    /\ fillStyle' = c.fillStyle

\* The keys of an object after `object[key] = ...`: a new key goes last,
\* a key already there keeps its place.
KeyAdd(keys, key) ==
    IF \E i \in DOMAIN keys : keys[i] = key THEN keys ELSE Append(keys, key)

(* ---------------------------- cooldown gate ---------------------------- *)

\* The gate is the three things startCooldown and updateCooldownDisplay
\* touch, as a record [canPaint, cooldownEndTime, timeouts].
Gate == [ canPaint |-> canPaint, cooldownEndTime |-> cooldownEndTime,
          timeouts |-> timeouts ]

\* `!cooldownEndTime`: null and 0 are falsy.
Falsy(t) == t = Null \/ t = 0

\* updateCooldownDisplay not waiting for the last ten seconds.
UpdateCooldownDisplayEarly(g) ==
    IF Falsy(g.cooldownEndTime)
    THEN g
    ELSE LET remaining ==
                 Max(0, CeilDiv(g.cooldownEndTime - now, COOLDOWN_TICK_MS))
         IN  IF remaining > 10
             THEN [g EXCEPT !.timeouts = BagAdd(@, COOLDOWN_TICK_MS)]
             ELSE [g EXCEPT !.canPaint = TRUE, !.cooldownEndTime = Null]

\* updateCooldownDisplay() run at time `now` on gate g.
UpdateCooldownDisplay(g) ==
    IF Falsy(g.cooldownEndTime)
    THEN g
    ELSE LET remaining ==
                 Max(0, CeilDiv(g.cooldownEndTime - now, COOLDOWN_TICK_MS))
         IN  IF remaining > 0
             THEN [g EXCEPT !.timeouts = BagAdd(@, COOLDOWN_TICK_MS)]
             ELSE [g EXCEPT !.canPaint = TRUE, !.cooldownEndTime = Null]

\* startCooldown recording the expiry and leaving canPaint as it is.
StartCooldownKeepsFlag(g, seconds) ==
    UpdateCooldownDisplay(
        [g EXCEPT !.cooldownEndTime = now + seconds * MS_PER_SECOND])

\* startCooldown(seconds) run at time `now` on gate g.
StartCooldown(g, seconds) ==
    UpdateCooldownDisplay(
        [g EXCEPT !.canPaint = FALSE,
                  !.cooldownEndTime = now + seconds * MS_PER_SECOND])

SetGate(g) ==
    /\ canPaint' = g.canPaint
    /\ cooldownEndTime' = g.cooldownEndTime
    /\ timeouts' = g.timeouts

(* ------------------------------- startup ------------------------------- *)

\* data.pixels.forEach(pixel => canvasState[key] = pixel.color) on {}
RECURSIVE LoadBulk(_, _)
LoadBulk(state, pixels) ==
    IF pixels = << >>
    THEN state
    ELSE LoadBulk(SetCell(state, Key(Head(pixels).x, Head(pixels).y),
                          Head(pixels).color),
                  Tail(pixels))

\* The keys of canvasState after the same loop.
RECURSIVE LoadKeys(_, _)
LoadKeys(keys, pixels) ==
    IF pixels = << >>
    THEN keys
    ELSE LoadKeys(KeyAdd(keys, Key(Head(pixels).x, Head(pixels).y)),
                  Tail(pixels))

StatsCall(caller, stage) == [caller |-> caller, stage |-> stage]

\* loadCanvasState run again whenever getCanvasState() is answered.
LoadCanvasFulfilledAnytime(pixels) ==
    /\ canvasState' = LoadBulk(EmptyState, pixels)
    /\ canvasKeys' = LoadKeys(<< >>, pixels)
    /\ SetCtx(RedrawCanvas(Ctx, canvasState', canvasKeys'))
    /\ pc' = "stats"
    /\ statsCalls' = BagAdd(statsCalls, StatsCall("init", "info"))
    /\ notice' = "none"
    /\ UNCHANGED << now, gate, paintReqs, paintsIssued, loops, inspection >>

\* loadCanvasState() after getCanvasState() is fulfilled with `pixels`;
\* init() goes on to `await updateStats()`.
LoadCanvasFulfilled(pixels) ==
    /\ pc = "load"
    /\ canvasState' = LoadBulk(EmptyState, pixels)
    /\ canvasKeys' = LoadKeys(<< >>, pixels)
    /\ SetCtx(RedrawCanvas(Ctx, canvasState', canvasKeys'))
    /\ pc' = "stats"
    /\ statsCalls' = BagAdd(statsCalls, StatsCall("init", "info"))
    /\ notice' = "none"
    /\ UNCHANGED << now, gate, paintReqs, paintsIssued, loops, inspection >>

\* loadCanvasState() after getCanvasState() is rejected: the catch alerts.
LoadCanvasRejected ==
    /\ pc = "load"
    /\ pc' = "stats"
    /\ statsCalls' = BagAdd(statsCalls, StatsCall("init", "info"))
    /\ notice' = "load-error"
    /\ UNCHANGED << now, gate, canvasState, primary, paintReqs, paintsIssued,
                    loops, inspection >>

\* What follows the end of an updateStats invocation: init() goes on to
\* setupEventListeners() and startUpdateLoop(); the other callers have
\* nothing left that touches the state.
AfterUpdateStats(caller) ==
    IF caller = "init"
    THEN /\ pc' = "run"
         /\ activityReqs' = activityReqs + 1
         /\ activityDelay' = ACTIVITY_INTERVAL_MS
         /\ statsDelay' = STATS_INTERVAL_MS
         /\ UNCHANGED recentActivity
    ELSE UNCHANGED << pc, loops >>

(* ----------------------------- updateStats ----------------------------- *)

\* getCanvasInfo() fulfilled: the invocation goes on to getUserStats().
StatsInfoFulfilled ==
    \E c \in BagToSet(statsCalls) :
        /\ c.stage = "info"
        /\ statsCalls' = BagAdd(BagRemove(statsCalls, c),
                                StatsCall(c.caller, "user"))
        /\ notice' = "none"
        /\ UNCHANGED << pc, now, gate, canvasState, primary, paintReqs,
                        paintsIssued, loops, inspection >>

\* updateStats throwing the local canvas away, as a reload would.
StatsUserFulfilledResetsCanvas ==
    \E c \in BagToSet(statsCalls), userStats \in UserStats :
        /\ c.stage = "user"
        /\ statsCalls' = BagRemove(statsCalls, c)
        /\ IF userStats.can_paint = FALSE /\ userStats.cooldown_remaining > 0
           THEN SetGate(StartCooldown(Gate, userStats.cooldown_remaining))
           ELSE UNCHANGED gate
        /\ AfterUpdateStats(c.caller)
        /\ notice' = "none"
        /\ canvasState' = EmptyState
        /\ canvasKeys' = << >>
        /\ UNCHANGED << surface, fillStyle >>
        /\ UNCHANGED << now, paintReqs, paintsIssued, inspection >>

\* getUserStats() fulfilled with userStats.
StatsUserFulfilled ==
    \E c \in BagToSet(statsCalls), userStats \in UserStats :
        /\ c.stage = "user"
        /\ statsCalls' = BagRemove(statsCalls, c)
        /\ IF userStats.can_paint = FALSE /\ userStats.cooldown_remaining > 0
           THEN SetGate(StartCooldown(Gate, userStats.cooldown_remaining))
           ELSE UNCHANGED gate
        /\ AfterUpdateStats(c.caller)
        /\ notice' = "none"
        /\ UNCHANGED << now, canvasState, primary, paintReqs, paintsIssued,
                        inspection >>

\* The catch of updateStats alerting as the catch of loadCanvasState does.
StatsRejectedAlerts ==
    \E c \in BagToSet(statsCalls) :
        /\ statsCalls' = BagRemove(statsCalls, c)
        /\ AfterUpdateStats(c.caller)
        /\ notice' = "load-error"
        /\ UNCHANGED << now, gate, canvasState, primary, paintReqs,
                        paintsIssued, inspection >>

\* Either call rejected: the catch logs and the invocation ends.
StatsRejected ==
    \E c \in BagToSet(statsCalls) :
        /\ statsCalls' = BagRemove(statsCalls, c)
        /\ AfterUpdateStats(c.caller)
        /\ notice' = "none"
        /\ UNCHANGED << now, gate, canvasState, primary, paintReqs,
                        paintsIssued, inspection >>

(* ------------------------------ painting ------------------------------- *)

\* Math.floor(mouse / PIXEL_SIZE)
ToCell(offset) == offset \div PIXEL_SIZE

\* The out-of-grid test with its upper limits one too far.
OutOfGridInclusive(x, y) == x < 0 \/ x > GRID_SIZE \/ y < 0 \/ y > GRID_SIZE

\* x < 0 || x >= GRID_SIZE || y < 0 || y >= GRID_SIZE
OutOfGrid(x, y) == x < 0 \/ x >= GRID_SIZE \/ y < 0 \/ y >= GRID_SIZE

\* handleCanvasClick without its `if (!canPaint)` check.
HandleCanvasClickNoGate(off, value) ==
    /\ pc = "run"
    /\ LET x == ToCell(off[1])
           y == ToCell(off[2])
       IN  IF OutOfGrid(x, y)
           THEN /\ notice' = "none"
                /\ UNCHANGED << paintReqs, paintsIssued >>
           ELSE /\ paintReqs' =
                       BagAdd(paintReqs,
                              [x |-> x, y |-> y, color |-> ToUpperCase(value)])
                /\ paintsIssued' = paintsIssued + 1
                /\ notice' = "none"
    /\ UNCHANGED << pc, now, gate, canvasState, primary, statsCalls, loops,
                    inspection >>

\* handleCanvasClick writing the picked colour into canvasState before the
\* request is answered.
HandleCanvasClickOptimistic(off, value) ==
    /\ pc = "run"
    /\ IF ~canPaint
       THEN /\ notice' = "cooldown-local"
            /\ UNCHANGED << paintReqs, paintsIssued, canvasState, primary >>
       ELSE LET x == ToCell(off[1])
                y == ToCell(off[2])
            IN  IF OutOfGrid(x, y)
                THEN /\ notice' = "none"
                     /\ UNCHANGED << paintReqs, paintsIssued, canvasState,
                                     primary >>
                ELSE /\ paintReqs' =
                            BagAdd(paintReqs,
                                   [x |-> x, y |-> y,
                                    color |-> ToUpperCase(value)])
                     /\ canvasState' =
                            SetCell(canvasState, Key(x, y), ToUpperCase(value))
                     /\ canvasKeys' = KeyAdd(canvasKeys, Key(x, y))
                     /\ UNCHANGED << surface, fillStyle >>
                     /\ paintsIssued' = paintsIssued + 1
                     /\ notice' = "none"
    /\ UNCHANGED << pc, now, gate, statsCalls, loops, inspection >>

\* handleCanvasClick(event) up to `await paintPixel(...)`: a click at
\* pointer offset `off` while the colour picker holds `value`.
HandleCanvasClick(off, value) ==
    /\ pc = "run"
    /\ IF ~canPaint
       THEN /\ notice' = "cooldown-local"
            /\ UNCHANGED << paintReqs, paintsIssued >>
       ELSE LET x == ToCell(off[1])
                y == ToCell(off[2])
            IN  IF OutOfGrid(x, y)
                THEN /\ notice' = "none"
                     /\ UNCHANGED << paintReqs, paintsIssued >>
                ELSE /\ paintReqs' =
                            BagAdd(paintReqs,
                                   [x |-> x, y |-> y,
                                    color |-> ToUpperCase(value)])
                     /\ paintsIssued' = paintsIssued + 1
                     /\ notice' = "none"
    /\ UNCHANGED << pc, now, gate, canvasState, primary, statsCalls, loops,
                    inspection >>

\* !response || !response.pixel
InvalidResponse(response) == ~response.present \/ ~response.hasPixel

\* response.cooldown_remaining || 30
CooldownSeconds(response) ==
    IF response.cooldown_remaining = 0
    THEN DEFAULT_COOLDOWN
    ELSE response.cooldown_remaining

\* handleCanvasClick after paintPixel() is fulfilled with `response`, up to
\* `await updateStats()`, for the click that asked for cell (req.x, req.y).
PaintFulfilled(req, response) ==
    /\ BagIn(req, paintReqs)
    /\ paintReqs' = BagRemove(paintReqs, req)
    /\ IF InvalidResponse(response)
       THEN /\ notice' = "invalid-response"
            /\ UNCHANGED << canvasState, primary, gate, statsCalls >>
       ELSE /\ canvasState' =
                   SetCell(canvasState, Key(req.x, req.y), response.color)
            /\ canvasKeys' = KeyAdd(canvasKeys, Key(req.x, req.y))
            /\ SetCtx(DrawPixel(Ctx, req.x, req.y, response.color))
            /\ SetGate(StartCooldown(Gate, CooldownSeconds(response)))
            /\ statsCalls' = BagAdd(statsCalls, StatsCall("paint", "info"))
            /\ notice' = "none"
    /\ UNCHANGED << pc, now, paintsIssued, loops, inspection >>

\* errorMessage.includes('cooldown') || errorMessage.includes('429')
MentionsCooldown(err) == err = "detail-cooldown"
\* errorMessage.includes('petición'): the fallback message of apiRequest
MentionsPeticion(err) == err = "no-detail"

\* The alert chosen by the catch block of handleCanvasClick: the cooldown
\* notice, the connection notice, or 'Error: ' + errorMessage (the message
\* is stood for by the kind of error that carries it).
ErrorNotice(err) ==
    IF MentionsCooldown(err) THEN "cooldown-remote"
    ELSE IF MentionsPeticion(err) THEN "connection"
    ELSE "error: " \o err

\* The catch block starting the cooldown as the success path does.
PaintRejectedClosesGate(req, err) ==
    /\ BagIn(req, paintReqs)
    /\ paintReqs' = BagRemove(paintReqs, req)
    /\ notice' = ErrorNotice(err)
    /\ SetGate(StartCooldown(Gate, DEFAULT_COOLDOWN))
    /\ UNCHANGED << pc, now, canvasState, primary, paintsIssued, statsCalls,
                    loops, inspection >>

\* handleCanvasClick after paintPixel() is rejected with `err`.
PaintRejected(req, err) ==
    /\ BagIn(req, paintReqs)
    /\ paintReqs' = BagRemove(paintReqs, req)
    /\ notice' = ErrorNotice(err)
    /\ UNCHANGED << pc, now, gate, canvasState, primary, paintsIssued,
                    statsCalls, loops, inspection >>

(* --------------------------- time and timers --------------------------- *)

\* A pending timer's delay after `d` more milliseconds.
Elapse(delay, d) == Max(0, delay - d)

ElapseBag(b, d) ==
    LET left == { Elapse(e, d) : e \in BagToSet(b) }
    IN  [ l \in left |->
            LET from == { e \in BagToSet(b) : Elapse(e, d) = l }
                RECURSIVE Sum(_)
                Sum(S) == IF S = {} THEN 0
                          ELSE LET e == CHOOSE e \in S : TRUE
                               IN  CopiesIn(e, b) + Sum(S \ {e})
            IN  Sum(from) ]

\* Time passes with no event handled.
Advance ==
    /\ now + TimeStep <= MaxTime
    /\ now' = now + TimeStep
    /\ timeouts' = ElapseBag(timeouts, TimeStep)
    /\ activityDelay' =
           IF activityDelay = Null THEN Null ELSE Elapse(activityDelay, TimeStep)
    /\ statsDelay' =
           IF statsDelay = Null THEN Null ELSE Elapse(statsDelay, TimeStep)
    /\ notice' = "none"
    /\ UNCHANGED << pc, canPaint, cooldownEndTime, canvasState, primary,
                    paintReqs, paintsIssued, statsCalls, activityReqs,
                    recentActivity, inspection >>

\* A due timer that is dropped without its callback being run.
CooldownTimeoutLost ==
    /\ BagIn(0, timeouts)
    /\ timeouts' = BagRemove(timeouts, 0)
    /\ notice' = "none"
    /\ UNCHANGED << pc, now, canPaint, cooldownEndTime, canvasState, primary,
                    paintReqs, paintsIssued, statsCalls, loops, inspection >>

\* A due setTimeout(updateCooldownDisplay, 1000) runs its callback.
CooldownTimeout ==
    /\ BagIn(0, timeouts)
    /\ SetGate(UpdateCooldownDisplay(
                   [Gate EXCEPT !.timeouts = BagRemove(@, 0)]))
    /\ notice' = "none"
    /\ UNCHANGED << pc, now, canvasState, primary, paintReqs, paintsIssued,
                    statsCalls, loops, inspection >>

(* -------------------------- periodic refreshes ------------------------- *)

\* setInterval(updateRecentActivity, 10000) fires: getRecentPixels(5) is
\* called and awaited.
ActivityInterval ==
    /\ activityDelay = 0
    /\ activityDelay' = ACTIVITY_INTERVAL_MS
    /\ activityReqs' = activityReqs + 1
    /\ notice' = "none"
    /\ UNCHANGED << pc, now, gate, canvasState, primary, paintReqs,
                    paintsIssued, statsCalls, statsDelay, recentActivity,
                    inspection >>

\* updateRecentActivity after getRecentPixels() is fulfilled with an empty
\* or a non-empty list.
ActivityFulfilled(empty) ==
    /\ activityReqs > 0
    /\ activityReqs' = activityReqs - 1
    /\ recentActivity' = IF empty THEN "empty-state" ELSE "list"
    /\ notice' = "none"
    /\ UNCHANGED << pc, now, gate, canvasState, primary, paintReqs,
                    paintsIssued, statsCalls, activityDelay, statsDelay,
                    inspection >>

\* updateRecentActivity after getRecentPixels() is rejected: logged only.
ActivityRejected ==
    /\ activityReqs > 0
    /\ activityReqs' = activityReqs - 1
    /\ notice' = "none"
    /\ UNCHANGED << pc, now, gate, canvasState, primary, paintReqs,
                    paintsIssued, statsCalls, activityDelay, statsDelay,
                    recentActivity, inspection >>

\* setInterval(updateStats, 30000) fires: updateStats() runs up to its
\* first await.
StatsInterval ==
    /\ statsDelay = 0
    /\ statsDelay' = STATS_INTERVAL_MS
    /\ statsCalls' = BagAdd(statsCalls, StatsCall("interval", "info"))
    /\ notice' = "none"
    /\ UNCHANGED << pc, now, gate, canvasState, primary, paintReqs,
                    paintsIssued, activityDelay, activityReqs, recentActivity,
                    inspection >>

(* -------------------------------- hover -------------------------------- *)

\* 'Sin pintar', shown for a cell with no (truthy) colour in canvasState.
Unpainted == <<"Sin pintar">>

\* `if (color)` on canvasState[key]
Shown(state, key) ==
    IF key \in DOMAIN state /\ state[key] # Undefined
    THEN state[key]
    ELSE Unpainted

\* handleCanvasHover(event): a mousemove at pointer offset `off`.
HandleCanvasHover(off) ==
    /\ pc = "run"
    /\ LET x == ToCell(off[1])
           y == ToCell(off[2])
       IN  IF OutOfGrid(x, y)
           THEN UNCHANGED pixelInfo
           ELSE pixelInfo' = <<x, y, Shown(canvasState, Key(x, y))>>
    /\ notice' = "none"
    /\ UNCHANGED << pc, now, gate, canvasState, primary, paintReqs,
                    paintsIssued, statsCalls, loops, magnifier >>

(* ------------------------------ magnifier ------------------------------ *)

\* The two magnifier scripts: frontend/magnifier.js copies a region of the
\* primary canvas with drawImage, unnamed/part_000 draws the cells of
\* canvasState itself. Their listeners are the same.
Variants == {"sampling", "raster"}

Radius(v) ==
    IF v = "sampling" THEN MAGNIFIER_RADIUS ELSE MAGNIFIER_RADIUS_RASTER
Zoom(v) ==
    IF v = "sampling" THEN MAGNIFIER_ZOOM ELSE MAGNIFIER_ZOOM_RASTER

\* event.key is 'z' or 'Z'
IsZ(key) == key = "z" \/ key = "Z"

\* magnifierCtx.clearRect(0, 0, width, height): the content goes, the
\* context's clip and save() stack stay.
ClearRect(l) ==
    [l EXCEPT !.fill = FALSE, !.copied = FALSE, !.cells = EmptySurface,
              !.grid = FALSE, !.crosshair = FALSE, !.border = FALSE]

\* hideMagnifier()
HideMagnifier(l) == ClearRect(l)

\* magnifierX < 0 || magnifierY < 0 || magnifierX > CANVAS_SIZE ||
\* magnifierY > CANVAS_SIZE
OutOfRange(mx, my) ==
    mx < 0 \/ my < 0 \/ mx > CANVAS_SIZE \/ my > CANVAS_SIZE

\* sourceX = Math.max(0, magnifierX - sourceSize / 2), with sourceSize =
\* (MAGNIFIER_RADIUS * 2) / MAGNIFIER_ZOOM: lengths on the primary canvas
\* are kept times MAGNIFIER_ZOOM, which keeps them whole numbers.
SourceOrigin(v, m) == Max(0, m * Zoom(v) - Radius(v))

\* destX = magnifierX - MAGNIFIER_RADIUS
DestOrigin(v, m) == m - Radius(v)

\* Where drawImage(mainCanvas, sourceX, .., sourceSize, .., destX, ..,
\* destSize, ..) puts the point o of the primary canvas, along one axis:
\* destX + (o - sourceX) * (destSize / sourceSize).
Sampled(v, m, o) == DestOrigin(v, m) + (o * Zoom(v) - SourceOrigin(v, m))

\* The square of side PIXEL_SIZE at o meets the source rectangle, along
\* one axis.
InSource(v, m, o) ==
    /\ o * Zoom(v) < SourceOrigin(v, m) + 2 * Radius(v)
    /\ (o + PIXEL_SIZE) * Zoom(v) > SourceOrigin(v, m)

\* The painted squares drawImage copies from the primary canvas `surf`.
SampledCells(v, mx, my, surf) ==
    LET seen == { o \in DOMAIN surf :
                    InSource(v, mx, o[1]) /\ InSource(v, my, o[2]) }
        corner(o) == <<Sampled(v, mx, o[1]), Sampled(v, my, o[2])>>
    IN  [ q \in { corner(o) : o \in seen } |->
            surf[CHOOSE o \in seen : corner(o) = q] ]

\* startX = Math.floor((magnifierX - sourceSize / 2) / PIXEL_SIZE)
StartCell(v, m) == (m * Zoom(v) - Radius(v)) \div (PIXEL_SIZE * Zoom(v))
\* endX = Math.ceil((magnifierX + sourceSize / 2) / PIXEL_SIZE)
EndCell(v, m) == CeilDiv(m * Zoom(v) + Radius(v), PIXEL_SIZE * Zoom(v))

\* posX = magnifierX + (x * PIXEL_SIZE - magnifierX) * MAGNIFIER_ZOOM
Pos(v, m, x) == m + (x * PIXEL_SIZE - m) * Zoom(v)

\* The cells the two loops of part_000 fill: those of `state` with a
\* (truthy) colour, from the start to the end cell on both axes.
RasterCells(v, mx, my, state) ==
    LET seen == { k \in DOMAIN state :
                    /\ state[k] # Undefined
                    /\ StartCell(v, mx) <= k[1] /\ k[1] <= EndCell(v, mx)
                    /\ StartCell(v, my) <= k[2] /\ k[2] <= EndCell(v, my) }
        corner(k) == <<Pos(v, mx, k[1]), Pos(v, my, k[2])>>
    IN  [ q \in { corner(k) : k \in seen } |->
            CssColor(state[CHOOSE k \in seen : corner(k) = q]) ]

\* drawMagnifier() with no try around drawImage: a throw ends it there.
DrawMagnifierUncaught(v, l, mx, my, ok) ==
    IF OutOfRange(mx, my)
    THEN ClearRect(l)
    ELSE LET masked == [ClearRect(l) EXCEPT !.saved = @ + 1,
                                            !.clipped = TRUE, !.fill = TRUE]
         IN  IF v = "sampling" /\ ~ok
             THEN masked
             ELSE [masked EXCEPT
                      !.copied = TRUE,
                      !.cells = IF v = "raster"
                                THEN RasterCells(v, mx, my, canvasState)
                                ELSE SampledCells(v, mx, my, surface),
                      !.grid = TRUE, !.crosshair = TRUE,
                      !.saved = @ - 1, !.clipped = FALSE,
                      !.border = TRUE]

\* drawMagnifier() of script v with the magnifier at (mx, my); `ok` is
\* false when drawImage throws (frontend/magnifier.js catches and logs).
DrawMagnifier(v, l, mx, my, ok) ==
    IF OutOfRange(mx, my)
    THEN ClearRect(l)
    ELSE LET masked == [ClearRect(l) EXCEPT !.saved = @ + 1,
                                            !.clipped = TRUE, !.fill = TRUE]
             drawn ==
                 IF v = "raster"
                 THEN [masked EXCEPT
                          !.copied = TRUE,
                          !.cells = RasterCells(v, mx, my, canvasState)]
                 ELSE IF ok
                 THEN [masked EXCEPT
                          !.copied = TRUE,
                          !.cells = SampledCells(v, mx, my, surface)]
                 ELSE masked
         IN  [drawn EXCEPT !.grid = TRUE, !.crosshair = TRUE,
                           !.saved = @ - 1, !.clipped = FALSE,
                           !.border = TRUE]

\* The page's handlers leave the magnifier alone and the magnifier's
\* listeners leave the page alone.
page == << pc, now, gate, canvasState, primary, paintReqs, paintsIssued,
           statsCalls, loops, pixelInfo >>

\* The keydown listener: activateMagnifier() on Z while inactive.
KeyDown(key) ==
    /\ magnifierActive' = (magnifierActive \/ IsZ(key))
    /\ notice' = "none"
    /\ UNCHANGED << page, variant, magnifierX, magnifierY, lens >>

\* The keyup listener: deactivateMagnifier() on Z while active.
KeyUp(key) ==
    /\ IF IsZ(key) /\ magnifierActive
       THEN /\ magnifierActive' = FALSE
            /\ lens' = HideMagnifier(lens)
       ELSE UNCHANGED << magnifierActive, lens >>
    /\ notice' = "none"
    /\ UNCHANGED << page, variant, magnifierX, magnifierY >>

\* The listener following the pointer although the magnifier is inactive.
TrackPointerUnguarded(off, ok) ==
    /\ magnifierX' = off[1]
    /\ magnifierY' = off[2]
    /\ lens' = DrawMagnifier(variant, lens, off[1], off[2], ok)
    /\ notice' = "none"
    /\ UNCHANGED << page, variant, magnifierActive >>

\* The body shared by the mousemove and the mouseenter listener, for an
\* event at pointer offset `off`: updateMagnifierPosition(event) and
\* drawMagnifier() while active.
TrackPointer(off, ok) ==
    /\ IF magnifierActive
       THEN /\ magnifierX' = off[1]
            /\ magnifierY' = off[2]
            /\ lens' = DrawMagnifier(variant, lens, off[1], off[2], ok)
       ELSE UNCHANGED << magnifierX, magnifierY, lens >>
    /\ notice' = "none"
    /\ UNCHANGED << page, variant, magnifierActive >>

MagnifierMouseMove(off, ok) == TrackPointer(off, ok)
MagnifierMouseEnter(off, ok) == TrackPointer(off, ok)

\* The mouseleave listener: hideMagnifier() while active.
MagnifierMouseLeave ==
    /\ IF magnifierActive
       THEN lens' = HideMagnifier(lens)
       ELSE UNCHANGED lens
    /\ notice' = "none"
    /\ UNCHANGED << page, variant, magnifierActive, magnifierX, magnifierY >>

(* ---------------------------- specification ---------------------------- *)

\* The click at `off` would reach paintPixel.
IssuesPaint(off) == canPaint /\ ~OutOfGrid(ToCell(off[1]), ToCell(off[2]))

\* Any click, as long as fewer than `bound` paint requests were made.
Click(bound) ==
    \E off \in PointerOffsets, value \in PickerValues :
        /\ IssuesPaint(off) => paintsIssued < bound
        /\ HandleCanvasClick(off, value)

PaintOk == \E req \in BagToSet(paintReqs), response \in PaintResponses :
               PaintFulfilled(req, response)
PaintErr == \E req \in BagToSet(paintReqs), err \in PaintErrors :
                PaintRejected(req, err)
LoadOk == \E pixels \in Snapshots : LoadCanvasFulfilled(pixels)
ActivityOk == \E empty \in BOOLEAN : ActivityFulfilled(empty)
ClickPaint == Click(MaxPaints)
ClickRefresh == Click(MaxRefreshPaints)

\* Startup, clicks, paint requests, updateStats, the cooldown timers and
\* the passing of time. The getRecentPixels calls of startUpdateLoop are
\* left unanswered here: they touch only activityReqs and recentActivity,
\* which nothing else reads.
Next ==
    \/ LoadOk
    \/ LoadCanvasRejected
    \/ StatsInfoFulfilled
    \/ StatsUserFulfilled
    \/ StatsRejected
    \/ ClickPaint
    \/ PaintOk
    \/ PaintErr
    \/ Advance
    \/ CooldownTimeout
    \/ StatsInterval

Spec == Init /\ [][Next]_vars

\* The same with the recent-activity refresh answered and repeated.
NextRefresh ==
    \/ LoadOk
    \/ LoadCanvasRejected
    \/ StatsInfoFulfilled
    \/ StatsUserFulfilled
    \/ StatsRejected
    \/ ClickRefresh
    \/ PaintOk
    \/ PaintErr
    \/ Advance
    \/ CooldownTimeout
    \/ StatsInterval
    \/ ActivityInterval
    \/ ActivityOk
    \/ ActivityRejected

SpecRefresh == Init /\ [][NextRefresh]_vars

(* ------------------------- cooldown running out ------------------------ *)

\* Time passes with no event handled, past MaxTime too while a cooldown
\* has not yet run out.
AdvanceLive ==
    /\ \/ now + TimeStep <= MaxTime
       \/ ~canPaint /\ cooldownEndTime # Null /\ now < cooldownEndTime
    /\ now' = now + TimeStep
    /\ timeouts' = ElapseBag(timeouts, TimeStep)
    /\ activityDelay' =
           IF activityDelay = Null THEN Null ELSE Elapse(activityDelay, TimeStep)
    /\ statsDelay' =
           IF statsDelay = Null THEN Null ELSE Elapse(statsDelay, TimeStep)
    /\ notice' = "none"
    /\ UNCHANGED << pc, canPaint, cooldownEndTime, canvasState, primary,
                    paintReqs, paintsIssued, statsCalls, activityReqs,
                    recentActivity, inspection >>

\* The periodic updateStats, watched up to MaxTime: from then on
\* startCooldown is called only for the requests still awaited.
StatsIntervalLive == now <= MaxTime /\ StatsInterval

NextLive ==
    \/ LoadOk
    \/ LoadCanvasRejected
    \/ StatsInfoFulfilled
    \/ StatsUserFulfilled
    \/ StatsRejected
    \/ ClickRefresh
    \/ PaintOk
    \/ PaintErr
    \/ AdvanceLive
    \/ CooldownTimeout
    \/ StatsIntervalLive

\* The clock keeps running and a due setTimeout callback is run in the
\* end; the user and the server are not obliged to do anything.
SpecLive ==
    Init /\ [][NextLive]_vars /\ WF_vars(AdvanceLive) /\ WF_vars(CooldownTimeout)

(* --------------------------- pointer mapping --------------------------- *)

\* Paint requests issued in SpecPointer.
MaxPointerPaints == 1

\* The page once init() has finished: the snapshot `pixels` is loaded and
\* drawn, updateStats found the gate open, the listeners are registered and
\* startUpdateLoop has made its first getRecentPixels call.
Started(pixels) ==
    /\ pc = "run"
    /\ now = 0
    /\ canPaint = TRUE
    /\ cooldownEndTime = Null
    /\ canvasState = LoadBulk(EmptyState, pixels)
    /\ canvasKeys = LoadKeys(<< >>, pixels)
    /\ LET c == RedrawCanvas([surface |-> EmptySurface,
                              fillStyle |-> CssColor(BACKGROUND)],
                             LoadBulk(EmptyState, pixels),
                             LoadKeys(<< >>, pixels))
       IN  surface = c.surface /\ fillStyle = c.fillStyle
    /\ paintReqs = EmptyBag
    /\ paintsIssued = 0
    /\ statsCalls = EmptyBag
    /\ timeouts = EmptyBag
    /\ activityDelay = ACTIVITY_INTERVAL_MS
    /\ statsDelay = STATS_INTERVAL_MS
    /\ activityReqs = 1
    /\ recentActivity = "initial"
    /\ notice = "none"
    /\ pixelInfo = NoInfo
    /\ magnifierActive = FALSE
    /\ magnifierX = 0
    /\ magnifierY = 0
    /\ lens = ClearLens

\* Offsets along one axis: the first and the last pixel of every cell, and
\* the pixels on either side of both ends of the canvas.
AxisOffsets ==
    UNION { {RealOrigin(x), RealOrigin(x) + PIXEL_SIZE - 1} :
              x \in 0..(GRID_SIZE - 1) }
      \cup {-PIXEL_SIZE, -1, CANVAS_SIZE, CANVAS_SIZE + 1, 65}

\* Pointer offsets of mousemove events: every axis offset along the row
\* and along the column of cell (3, 4), the offset (65, 85) inside that
\* cell, and two offsets off the canvas on both axes.
HoverOffsets ==
    (AxisOffsets \X {RealOrigin(4)}) \cup ({RealOrigin(3)} \X AxisOffsets)
      \cup { <<65, 85>>, <<-1, -1>>, <<CANVAS_SIZE, CANVAS_SIZE>> }

\* Pointer offsets of click events: origins, last pixels and interiors of
\* cells, and offsets off each side of the canvas.
ClickOffsets ==
    PointerOffsets \cup
    { <<0, 0>>, <<60, 80>>, <<-1, -1>>, <<85, CANVAS_SIZE>>,
      <<RealOrigin(GRID_SIZE - 1), RealOrigin(GRID_SIZE - 1)>>,
      <<CANVAS_SIZE - 1, CANVAS_SIZE - 1>> }

InitPointer ==
    /\ \E pixels \in Snapshots : Started(pixels)
    /\ variant = "sampling"

Hover == \E off \in HoverOffsets : HandleCanvasHover(off)

ClickAt ==
    \E off \in ClickOffsets, value \in PickerValues :
        /\ IssuesPaint(off) => paintsIssued < MaxPointerPaints
        /\ HandleCanvasClick(off, value)

\* The started page under mouse moves and clicks alone: no response
\* arrives and no time passes.
NextPointer ==
    \/ Hover
    \/ ClickAt

SpecPointer == InitPointer /\ [][NextPointer]_vars

(* ------------------------------- redraw -------------------------------- *)

\* The longest snapshot loaded in SpecRedraw.
MaxSnapshot == 2

\* A pixel of a snapshot: one of three cells, with a colour in either case
\* or with none.
SnapshotPixels ==
    [ x : {3, 5, GRID_SIZE - 1}, y : {4}, color : WireColors \cup {Undefined} ]

\* getCanvasState(): data.pixels of up to MaxSnapshot pixels.
DrawSnapshots ==
    UNION { [1..n -> SnapshotPixels] : n \in 0..MaxSnapshot }

\* What the primary canvas may show and which fill style its context may
\* hold when a redraw starts.
PriorSurfaces ==
    UNION { [origins -> {CssColor(color) : color \in WireColors}] :
              origins \in SUBSET { <<RealOrigin(3), RealOrigin(4)>>, <<0, 0>> } }
PriorStyles == { CssColor(BACKGROUND) } \cup
               { CssColor(color) : color \in WireColors }

\* init() awaiting getCanvasState(), over any prior canvas content.
InitRedraw ==
    /\ pc = "load"
    /\ now = 0
    /\ canPaint = TRUE
    /\ cooldownEndTime = Null
    /\ canvasState = EmptyState
    /\ canvasKeys = << >>
    /\ surface \in PriorSurfaces
    /\ fillStyle \in PriorStyles
    /\ paintReqs = EmptyBag
    /\ paintsIssued = 0
    /\ statsCalls = EmptyBag
    /\ timeouts = EmptyBag
    /\ activityDelay = Null
    /\ statsDelay = Null
    /\ activityReqs = 0
    /\ recentActivity = "initial"
    /\ notice = "none"
    /\ pixelInfo = NoInfo
    /\ variant = "sampling"
    /\ magnifierActive = FALSE
    /\ magnifierX = 0
    /\ magnifierY = 0
    /\ lens = ClearLens

LoadDraw == \E pixels \in DrawSnapshots : LoadCanvasFulfilled(pixels)

\* The startup load and its redraw alone.
NextRedraw ==
    \/ LoadDraw
    \/ LoadCanvasRejected

SpecRedraw == InitRedraw /\ [][NextRedraw]_vars

(* -------------------------- magnifier in use --------------------------- *)

\* event.key of a key event
Keys == {"z", "Z", "x"}

\* Pointer offsets of the events the magnifier listens to, along one axis:
\* off the canvas, on its edges, nearer the edge than half the source
\* side, and well inside.
CentreAxis == {-5, 0, 10, 90, CANVAS_SIZE - 10, CANVAS_SIZE, CANVAS_SIZE + 5}
MagnifierOffsets == CentreAxis \X CentreAxis

\* getCanvasState() of the page the magnifier runs on.
LensSnapshots ==
    { << >>,
      << [x |-> 0, y |-> 0, color |-> <<"#", "0", "0", "F", "F", "0", "0">>],
         [x |-> 3, y |-> 4, color |-> <<"#", "f", "f", "6", "b", "6", "b">>],
         [x |-> GRID_SIZE - 1, y |-> GRID_SIZE - 1,
          color |-> <<"#", "0", "0", "F", "F", "0", "0">>] >> }

InitMagnifier ==
    /\ \E pixels \in LensSnapshots : Started(pixels)
    /\ variant \in Variants

KeyDownAny == \E key \in Keys : KeyDown(key)
KeyUpAny == \E key \in Keys : KeyUp(key)
MouseMoveAny == \E off \in MagnifierOffsets, ok \in BOOLEAN :
                    MagnifierMouseMove(off, ok)
MouseEnterAny == \E off \in MagnifierOffsets, ok \in BOOLEAN :
                     MagnifierMouseEnter(off, ok)

\* The started page under the events the magnifier listens to.
NextMagnifier ==
    \/ KeyDownAny
    \/ KeyUpAny
    \/ MouseMoveAny
    \/ MouseEnterAny
    \/ MagnifierMouseLeave

SpecMagnifier == InitMagnifier /\ [][NextMagnifier]_vars

(* ------------------------------- claims -------------------------------- *)

\* Steps by what they are.
ClickStep == \E off \in PointerOffsets, value \in PickerValues :
                 HandleCanvasClick(off, value)
\* A paint request answered with a response that passes the handler's check.
PaintAccepted(req, response) ==
    ~InvalidResponse(response) /\ PaintFulfilled(req, response)
PaintFailedStep == \E req \in BagToSet(paintReqs), err \in PaintErrors :
                       PaintRejected(req, err)
RefreshStep ==
    \/ StatsInterval \/ StatsInfoFulfilled \/ StatsUserFulfilled
    \/ StatsRejected \/ ActivityInterval \/ ActivityOk \/ ActivityRejected

Cell34 == Key(3, 4)
Green == <<"#", "0", "0", "F", "F", "0", "0">>
ErrorNotices == { ErrorNotice(err) : err \in PaintErrors }

\* C1: write-allowed is false for as long as a paint request is in flight,
\* so at most one paint request is outstanding at any time.
C1_GateClosedWhileInFlight ==
    /\ paintReqs # EmptyBag => ~canPaint
    /\ BagCardinality(paintReqs) <= 1

\* C2: in every reachable state canPaint is false exactly when
\* cooldownEndTime is set and strictly in the future (so it is true again
\* from the expiry instant on, before the next timer tick too).
C2_ClosedIffExpiryInFuture ==
    ~canPaint <=> (cooldownEndTime # Null /\ cooldownEndTime > now)

\* C3: while canPaint is false no step sends a paint request, and every
\* click is rejected with the local notice and leaves canvasState,
\* cooldownEndTime, canPaint and the request bag as they were.
C3_ClosedGateRejectsClicks ==
    [][ ~canPaint =>
          /\ BagCardinality(paintReqs') <= BagCardinality(paintReqs)
          /\ ClickStep =>
                /\ notice' = "cooldown-local"
                /\ UNCHANGED << canvasState, cooldownEndTime, canPaint,
                                paintReqs >> ]_vars

\* C3 witness: a click has just been rejected by the closed gate while the
\* cell it aimed at is painted.
C3_Witness ==
    /\ notice = "cooldown-local"
    /\ ~canPaint
    /\ cooldownEndTime > now
    /\ Cell34 \in DOMAIN canvasState

\* C4: a successful (well-formed) paint response with cooldown_remaining = n
\* records the expiry now + n seconds, and the stats refresh that follows
\* does not replace a recorded expiry.
C4_ExpiryIsResponseDuration ==
    [][ /\ \A req \in BagToSet(paintReqs), response \in PaintResponses :
              (PaintAccepted(req, response) /\ response.color # Undefined) =>
                  cooldownEndTime' =
                      now + response.cooldown_remaining * MS_PER_SECOND
        /\ (StatsUserFulfilled /\ cooldownEndTime # Null) =>
               cooldownEndTime' = cooldownEndTime ]_vars

C6_MalformedResponseChangesNothing ==
    [][ \A req \in BagToSet(paintReqs), response \in PaintResponses :
          ( /\ PaintFulfilled(req, response)
            /\ InvalidResponse(response) \/ response.color = Undefined ) =>
              /\ notice' # "none"
              /\ UNCHANGED << canvasState, canPaint, cooldownEndTime,
                              timeouts >> ]_vars

\* C7: every colour held in canvasState is in upper-case hex form.
C7_ColorsAreUpperCase ==
    \A k \in DOMAIN canvasState :
        canvasState[k] = ToUpperCase(canvasState[k])

\* C8: once the startup load is over, an entry of canvasState is created or
\* changed only by the step that handles a fulfilled paint request for that
\* cell (one whose response the handler accepts), and no entry is removed.
C8_EntriesWrittenOnlyOnConfirmation ==
    [][ pc # "load" =>
          /\ DOMAIN canvasState \subseteq DOMAIN canvasState'
          /\ \A k \in DOMAIN canvasState' :
                (k \notin DOMAIN canvasState \/ canvasState'[k] # canvasState[k])
                => \E req \in BagToSet(paintReqs), response \in PaintResponses :
                       PaintAccepted(req, response) /\ k = Key(req.x, req.y)
      ]_vars

\* C8 witness: a confirmed paint has written a colour no snapshot holds, and
\* a later click is in flight without having written anything.
C8_Witness ==
    /\ pc = "run"
    /\ Cell34 \in DOMAIN canvasState
    /\ canvasState[Cell34] = Green
    /\ paintReqs # EmptyBag

\* C9: the periodic refreshes (recent activity, stats), fired, answered or
\* failed, leave canvasState unchanged; canvasState changes only in the
\* startup load or in a step that consumes a paint request.
C9_RefreshLeavesGridAlone ==
    [][ /\ RefreshStep => UNCHANGED canvasState
        /\ canvasState' # canvasState =>
              \/ pc = "load"
              \/ BagCardinality(paintReqs') < BagCardinality(paintReqs)
      ]_vars

\* C9 witness: the stats interval has fired and its refresh is awaiting an
\* answer, the activity list has been refreshed, and the grid holds a paint.
C9_Witness ==
    /\ BagIn(StatsCall("interval", "user"), statsCalls)
    /\ recentActivity = "list"
    /\ Cell34 \in DOMAIN canvasState
    /\ canvasState[Cell34] = Green

\* C10: once the gate is open no recompute timer is pending, and there is
\* never more than one recompute timer chain, also when startCooldown is
\* called again while a chain is pending.
C10_SingleTimerChain ==
    /\ canPaint => timeouts = EmptyBag
    /\ BagCardinality(timeouts) <= 1


\* C11: the gate closes only in the step that handles a successful paint,
\* opens only in a timer callback run at or after the recorded expiry, and
\* no other step (a stats refresh in particular) closes it or replaces the
\* recorded expiry.
C11_GateMovesOnlyOnPaintAndExpiry ==
    [][ LET paintHandled ==
                \E req \in BagToSet(paintReqs), response \in PaintResponses :
                    PaintAccepted(req, response)
            expired == CooldownTimeout /\ now >= cooldownEndTime
        IN  /\ (canPaint /\ ~canPaint') => paintHandled
            /\ (~canPaint /\ canPaint') => expired
            /\ (cooldownEndTime # Null /\ cooldownEndTime' # cooldownEndTime)
                   => (paintHandled \/ expired) ]_vars

\* C12: a click whose offset maps outside the grid raises no notice, sends
\* no paint request and leaves canvasState and the gate unchanged, whether
\* the gate is open or closed.
C12_OutOfGridClickIsSilent ==
    [][ \A off \in PointerOffsets, value \in PickerValues :
          ( /\ OutOfGrid(ToCell(off[1]), ToCell(off[2]))
            /\ HandleCanvasClick(off, value) ) =>
              /\ notice' = "none"
              /\ UNCHANGED << paintReqs, canvasState, canPaint,
                              cooldownEndTime, timeouts >> ]_vars

\* C13: a paint request that fails in transport is surfaced with the
\* connection notice, and one that the server rejects (with or without a
\* detail message) is surfaced with another notice, never the connection
\* notice.
C13_TransportAndRejectionNotices ==
    [][ \A req \in BagToSet(paintReqs), err \in PaintErrors :
          PaintRejected(req, err) =>
              IF err = "transport"
              THEN notice' = "connection"
              ELSE notice' # "connection" ]_vars


\* The offset lies on the canvas: 0 <= px < W*scale and 0 <= py < H*scale.
InRect(off) ==
    /\ 0 <= off[1] /\ off[1] < GRID_SIZE * PIXEL_SIZE
    /\ 0 <= off[2] /\ off[2] < GRID_SIZE * PIXEL_SIZE

\* x is floor(px / scale).
IsFloor(px, x) == x * PIXEL_SIZE <= px /\ px < (x + 1) * PIXEL_SIZE

\* The hover showed cell (x, y); the click asked to paint cell (x, y).
HoverShows(x, y) ==
    pixelInfo' # NoInfo /\ pixelInfo'[1] = x /\ pixelInfo'[2] = y
ClickAsks(x, y, value) ==
    paintReqs' = BagAdd(paintReqs,
                        [x |-> x, y |-> y, color |-> ToUpperCase(value)])

\* C14: a pointer offset on the canvas is mapped, by the hover handler and
\* by the click handler, to the in-grid cell (floor(px/scale),
\* floor(py/scale)); an offset off the canvas (negative, or at or beyond
\* W*scale or H*scale) is treated as out of bounds: the hover shows nothing
\* new and the click asks for no paint.
C14_OffsetMapsToFloorCell ==
    [][ /\ \A off \in HoverOffsets :
             HandleCanvasHover(off) =>
                 IF InRect(off)
                 THEN \E x \in 0..(GRID_SIZE - 1) :
                          /\ IsFloor(off[1], x)
                          /\ \E y \in 0..(GRID_SIZE - 1) :
                                 IsFloor(off[2], y) /\ HoverShows(x, y)
                 ELSE UNCHANGED pixelInfo
        /\ \A off \in ClickOffsets, value \in PickerValues :
             (canPaint /\ HandleCanvasClick(off, value)) =>
                 IF InRect(off)
                 THEN \E x \in 0..(GRID_SIZE - 1) :
                          /\ IsFloor(off[1], x)
                          /\ \E y \in 0..(GRID_SIZE - 1) :
                                 IsFloor(off[2], y) /\ ClickAsks(x, y, value)
                 ELSE UNCHANGED paintReqs ]_vars

\* Offset (65, 85) was hovered and clicked: cell (3, 4) is shown and asked.
C14_Witness ==
    /\ pixelInfo # NoInfo /\ pixelInfo[1] = 3 /\ pixelInfo[2] = 4
    /\ \E req \in BagToSet(paintReqs) : req.x = 3 /\ req.y = 4

\* The cells whose origins SpecPointer hovers over (row 4 and column 3)
\* and clicks on.
HoveredCells ==
    ((0..(GRID_SIZE - 1)) \X {4}) \cup ({3} \X (0..(GRID_SIZE - 1)))
ClickedCells == { <<0, 0>>, <<3, 4>>, <<GRID_SIZE - 1, GRID_SIZE - 1>> }

\* C15: for every in-grid cell (x, y), the top-left pixel drawPixel gives
\* it, (x*scale, y*scale), is mapped back to (x, y) by the pointer
\* handlers: a hover there shows (x, y) and a click there asks for (x, y).
C15_CellOriginMapsBack ==
    [][ /\ \A cell \in HoveredCells :
             HandleCanvasHover(<<RealOrigin(cell[1]), RealOrigin(cell[2])>>)
                 => HoverShows(cell[1], cell[2])
        /\ \A cell \in ClickedCells, value \in PickerValues :
             ( /\ canPaint
               /\ HandleCanvasClick(<<RealOrigin(cell[1]), RealOrigin(cell[2])>>,
                                    value) )
                 => ClickAsks(cell[1], cell[2], value) ]_vars

\* The origin of cell (31, 4) was hovered and that of (31, 31) clicked.
C15_Witness ==
    /\ pixelInfo # NoInfo
    /\ pixelInfo[1] = GRID_SIZE - 1 /\ pixelInfo[2] = 4
    /\ \E req \in BagToSet(paintReqs) :
           req.x = GRID_SIZE - 1 /\ req.y = GRID_SIZE - 1


\* The fill the canvas shows in the square at origin o.
ContentAt(surf, o) ==
    IF o \in DOMAIN surf THEN surf[o] ELSE CssColor(BACKGROUND)

\* C16: redrawCanvas is idempotent: once loadCanvasState has redrawn the
\* canvas, over any prior content, a second redrawCanvas with canvasState
\* unchanged leaves the fill of every cell as it is.
C16_RedrawIsIdempotent ==
    [][ LoadDraw =>
          RedrawCanvas(Ctx', canvasState', canvasKeys').surface = surface'
      ]_vars

\* A redraw over a painted canvas has drawn two cells, one of them from an
\* entry with no colour.
C16_Witness ==
    /\ pc = "stats"
    /\ Len(canvasKeys) = 2
    /\ \E k \in DOMAIN canvasState : canvasState[k] = Undefined
    /\ DOMAIN surface = { <<RealOrigin(3), RealOrigin(4)>>,
                          <<RealOrigin(5), RealOrigin(4)>> }

\* The last pixel of the snapshot listed at the coordinates of pixels[i].
LastListed(pixels, i) ==
    pixels[ CHOOSE j \in DOMAIN pixels :
              /\ pixels[j].x = pixels[i].x /\ pixels[j].y = pixels[i].y
              /\ \A k \in DOMAIN pixels :
                   (pixels[k].x = pixels[i].x /\ pixels[k].y = pixels[i].y)
                       => k <= j ]

\* C17: after the startup load of a snapshot whose pixels all carry a
\* colour, every listed cell is filled with the upper-case form of the last
\* colour listed for it and every other cell shows the background, whatever
\* the canvas showed before.
C17_LoadedSnapshotIsDrawn ==
    [][ \A pixels \in DrawSnapshots :
          ( /\ \A i \in DOMAIN pixels : pixels[i].color # Undefined
            /\ LoadCanvasFulfilled(pixels) ) =>
              LET listed == { <<RealOrigin(pixels[i].x), RealOrigin(pixels[i].y)>> :
                                i \in DOMAIN pixels }
              IN  /\ \A i \in DOMAIN pixels :
                        ContentAt(surface', <<RealOrigin(pixels[i].x),
                                              RealOrigin(pixels[i].y)>>)
                          = CssColor(ToUpperCase(LastListed(pixels, i).color))
                  /\ \A o \in DOMAIN surface' : o \in listed ]_vars

\* The snapshot [(3,4) '#ff6b6b'] was loaded and drawn: cell (3,4) alone is
\* filled, with the colour #FF6B6B.
C17_Witness ==
    /\ pc = "stats"
    /\ canvasState = SetCell(EmptyState, Cell34,
                             <<"#", "f", "f", "6", "b", "6", "b">>)
    /\ surface = SetCell(EmptySurface, <<RealOrigin(3), RealOrigin(4)>>,
                         CssColor(<<"#", "F", "F", "6", "B", "6", "B">>))


\* C18: while the magnifier is inactive, a mousemove or mouseenter event on
\* the primary canvas leaves the magnifier canvas and the tracked centre
\* (magnifierX, magnifierY) unchanged.
C18_InactiveMagnifierIgnoresPointer ==
    [][ \A off \in MagnifierOffsets, ok \in BOOLEAN :
          ( /\ ~magnifierActive
            /\ MagnifierMouseMove(off, ok) \/ MagnifierMouseEnter(off, ok) )
              => UNCHANGED << lens, magnifierX, magnifierY >> ]_vars

\* The magnifier is inactive after having tracked the pointer to (10, 90):
\* pointer events in this state are the claim's case.
C18_Witness ==
    /\ ~magnifierActive
    /\ magnifierX = 10 /\ magnifierY = 90
    /\ lens = ClearLens


\* C19: the magnifier goes from active to inactive when Z is released and
\* when the pointer leaves the primary canvas: after either event the
\* active flag is false.
C19_ReleaseAndLeaveDeactivate ==
    [][ ( /\ magnifierActive
          /\ \/ \E key \in Keys : IsZ(key) /\ KeyUp(key)
             \/ MagnifierMouseLeave )
          => ~magnifierActive' ]_vars

\* The centre lies on the primary canvas.
CentreInside(mx, my) ==
    /\ 0 <= mx /\ mx < CANVAS_SIZE
    /\ 0 <= my /\ my < CANVAS_SIZE

\* Cell index x lies, along one axis, in the square of side
\* 2 * radius / zoom centred at m.
InRegion(v, m, x) ==
    /\ x * PIXEL_SIZE * Zoom(v) < m * Zoom(v) + Radius(v)
    /\ (x + 1) * PIXEL_SIZE * Zoom(v) > m * Zoom(v) - Radius(v)

\* center + (x * scale - center) * zoom
ZoomedCorner(v, m, x) == m + (x * PIXEL_SIZE - m) * Zoom(v)

\* C20: with either magnifier script, whenever the magnified content is
\* drawn for a centre on the primary canvas, every painted cell (x, y) in
\* the source region is on the magnifier canvas in its canvasState colour
\* with its top-left corner at center + (x*scale - center)*zoom on each
\* axis, and the origin of the region the script reads is not negative.
C20_MagnifierIsCellAccurate ==
    (lens.copied /\ CentreInside(magnifierX, magnifierY)) =>
        /\ \A k \in DOMAIN canvasState :
             ( /\ canvasState[k] # Undefined
               /\ InRegion(variant, magnifierX, k[1])
               /\ InRegion(variant, magnifierY, k[2]) ) =>
                 LET q == <<ZoomedCorner(variant, magnifierX, k[1]),
                            ZoomedCorner(variant, magnifierY, k[2])>>
                 IN  /\ q \in DOMAIN lens.cells
                     /\ lens.cells[q] = CssColor(canvasState[k])
        /\ IF variant = "sampling"
           THEN /\ SourceOrigin(variant, magnifierX) >= 0
                /\ SourceOrigin(variant, magnifierY) >= 0
           ELSE /\ StartCell(variant, magnifierX) >= 0
                /\ StartCell(variant, magnifierY) >= 0


\* C21: when drawImage throws in drawMagnifier (frontend/magnifier.js), the
\* pointer listener still runs to its end: the grid overlay, the crosshair
\* and the border are drawn, the clip is lifted and the context's save()
\* stack is as deep as before.
C21_SamplingFailureIsCaught ==
    [][ \A off \in MagnifierOffsets :
          ( /\ variant = "sampling"
            /\ magnifierActive
            /\ ~OutOfRange(off[1], off[2])
            /\ TrackPointer(off, FALSE) ) =>
              /\ lens'.grid /\ lens'.crosshair /\ lens'.border
              /\ ~lens'.clipped
              /\ lens'.saved = lens.saved
              /\ magnifierX' = off[1] /\ magnifierY' = off[2] ]_vars

\* The magnifier was drawn at (10, 90) with drawImage failing: the disc is
\* filled, nothing is copied, the overlays and the border are there.
C21_Witness ==
    /\ variant = "sampling"
    /\ magnifierX = 10 /\ magnifierY = 90
    /\ lens.fill /\ ~lens.copied
    /\ lens.grid /\ lens.crosshair /\ lens.border
    /\ lens.saved = 0

\* Any coordinate negative, or at or beyond the size of the primary canvas.
OutsideSurface(mx, my) ==
    mx < 0 \/ my < 0 \/ mx >= CANVAS_SIZE \/ my >= CANVAS_SIZE

\* C22: whenever the magnifier was last drawn for a centre outside the
\* primary canvas (a coordinate negative, or at or beyond CANVAS_SIZE), the
\* magnifier canvas is completely clear: no clip, fill, content, crosshair
\* or border.
C22_OutsideCentreDrawsNothing ==
    OutsideSurface(magnifierX, magnifierY) =>
        /\ lens = ClearRect(lens)
        /\ ~lens.clipped


\* C23: a failed background refresh (updateStats or updateRecentActivity
\* with a remote call rejected) raises no notice and changes neither
\* canvasState, the canvas nor the cooldown gate; once the update loop is
\* started both interval timers stay scheduled as they were.
C23_RefreshFailureIsSilent ==
    [][ (StatsRejected \/ ActivityRejected) =>
          /\ notice' = "none"
          /\ UNCHANGED << canvasState, primary, gate >>
          /\ pc = "run" =>
               /\ activityDelay # Null /\ activityDelay' = activityDelay
               /\ statsDelay # Null /\ statsDelay' = statsDelay ]_vars

\* The first getRecentPixels call was rejected (no request is awaited and
\* the activity panel was never written), and the updateStats interval has
\* fired since.
C23_Witness ==
    /\ pc = "run"
    /\ activityReqs = 0
    /\ recentActivity = "initial"
    /\ now >= STATS_INTERVAL_MS
    /\ statsDelay > 0
    /\ statsCalls = EmptyBag


\* C24: canPaint goes from false to true only in a step whose time is at
\* or after the cooldownEndTime recorded when the step starts, however the
\* startCooldown calls and the pending timer callbacks interleave.
C24_GateNeverReopensEarly ==
    [][ (~canPaint /\ canPaint') =>
          /\ cooldownEndTime # Null
          /\ now' >= cooldownEndTime ]_vars

\* A paint was confirmed for cell (3, 4), which closed the gate, and the
\* gate is open again.
C24_Witness ==
    /\ Cell34 \in DOMAIN canvasState
    /\ canvasState[Cell34] = Green
    /\ canPaint
    /\ cooldownEndTime = Null

\* C25: between any two handled events canPaint is true exactly when
\* cooldownEndTime is null.
C25_FlagMatchesExpiry == canPaint <=> (cooldownEndTime = Null)

\* The gate is closed with an expiry recorded and a request still awaited.
C25_Witness ==
    /\ ~canPaint
    /\ cooldownEndTime # Null
    /\ paintReqs # EmptyBag

\* C26: under fair timers and a running clock a closed gate reopens in the
\* end, and a closed gate always has a recompute timer pending.
C26_ClosedGateReopens ==
    /\ [](~canPaint => timeouts # EmptyBag)
    /\ (~canPaint ~> canPaint)

\* A paint was confirmed late, its cooldown ran past MaxTime, and the gate
\* is open again with no timer left.
C26_Witness ==
    /\ canPaint /\ cooldownEndTime = Null /\ timeouts = EmptyBag
    /\ paintsIssued > 0 /\ paintReqs = EmptyBag
    /\ now > MaxTime

\* The colour the Grid Model holds for cell k, as the canvas would keep it:
\* a cell with no entry, or with an entry that holds no colour, counts as
\* background.
ModelColor(k) ==
    IF k \in DOMAIN canvasState /\ canvasState[k] # Undefined
    THEN CssColor(canvasState[k])
    ELSE CssColor(BACKGROUND)

\* The cells with an entry in canvasState or a fill on the canvas; every
\* other cell has no entry and shows the background.
TouchedCells ==
    DOMAIN canvasState \cup
        { Key(o[1] \div PIXEL_SIZE, o[2] \div PIXEL_SIZE) : o \in DOMAIN surface }

\* C27: once the startup load is over, and after any clicks and answers to
\* paint requests, every cell of the canvas shows the colour canvasState
\* holds for it, or the background when canvasState has none.
C27_SurfaceAgreesWithGridModel ==
    pc # "load" =>
        \A k \in TouchedCells :
            ContentAt(surface, <<RealOrigin(k[1]), RealOrigin(k[2])>>)
                = ModelColor(k)

\* loadCanvasState comes to its end, with or without a snapshot.
LoadStep == LoadOk \/ LoadCanvasRejected

\* C28: loadCanvasState finishes at most once, and only while no click has
\* been handled: no paint request was made or is awaited and canvasState
\* holds no entry yet; clicks are handled and paint requests answered only
\* once startup is over, and startup never begins again.
C28_BulkLoadOnceBeforePaints ==
    [][ /\ LoadStep =>
              /\ pc = "load" /\ pc' # "load"
              /\ paintsIssued = 0 /\ paintReqs = EmptyBag
              /\ canvasState = EmptyState
        /\ pc # "load" => pc' # "load"
        /\ (ClickStep \/ PaintOk \/ PaintErr) => pc = "run" ]_vars

\* After the startup load a paint of cell (3,4) was confirmed with a colour
\* no snapshot leaves there, and the entry is still in canvasState.
C28_Witness ==
    /\ pc = "run"
    /\ paintsIssued = 1 /\ paintReqs = EmptyBag
    /\ Cell34 \in DOMAIN canvasState /\ canvasState[Cell34] = Green
    /\ ~canPaint /\ notice = "none"

====
